---- MODULE Spec2Model ----
(***************************************************************************)
(* A model of the storage engine of mini_sql_db: the value model, the      *)
(* ordered-map index (storage/btree.rs), the table file codec              *)
(* (storage/disk.rs), the Database operations (storage/mod.rs) and the     *)
(* executor's dispatch of a Scan plan (executor/mod.rs).                   *)
(*                                                                         *)
(* Conventions.  Text is a sequence of one-character strings.  A float is  *)
(* held as the integer number of halves it is worth (FloatV(3) is 1.5);    *)
(* NaN and the infinities are not modelled.  Row positions are 0-based as  *)
(* in the source, so the row at position p is rows[p + 1].                 *)
(***************************************************************************)
EXTENDS Integers, Sequences, FiniteSets, TLC

VARIABLES
    tables,     \* Database.tables : table name -> Table
    indexes,    \* Database.indexes: table name -> column name -> Index
    disk,       \* the data directory: table name -> contents of <name>.tbl
    last,       \* the last operation and its outcome, as the caller sees it
    faults      \* how many disk writes have failed so far

vars == <<tables, indexes, disk, last, faults>>

(***************************************************************************)
(* Bounds of the model.                                                    *)
(***************************************************************************)
MaxRows == 2        \* rows held by all tables together
MaxStack == 3       \* call frames a query may nest before the stack is gone
MaxFaults == 1      \* disk writes that fail in one run
MaxText == 3        \* characters of the longest text given to escape_string

(***************************************************************************)
(* parser/mod.rs: Value, DataType, Column, Operator, WhereClause           *)
(***************************************************************************)
IntV(n) == [tag |-> "Int", v |-> n]
TextV(s) == [tag |-> "Text", v |-> s]
FloatV(h) == [tag |-> "Float", v |-> h]
NullV == [tag |-> "Null"]

DataTypes == {"Int", "Text", "Float"}

Column(n, t) == [name |-> n, data_type |-> t]

Operators == {"Equals", "NotEquals", "GreaterThan", "LessThan",
              "GreaterOrEqual", "LessOrEqual"}

WhereClause(c, o, v) == [column |-> c, operator |-> o, value |-> v]

\* Option<T>
None == [some |-> FALSE]
Some(x) == [some |-> TRUE, v |-> x]

\* Result<T, E>; an Err carries the kind of failure
Ok(x) == [ok |-> TRUE, v |-> x]
Err(kind) == [ok |-> FALSE, err |-> kind]

(***************************************************************************)
(* Characters and strings.  CharCode is the byte a character is stored as, *)
(* which is what Rust's String ordering compares.                          *)
(***************************************************************************)
CharCode(c) ==
    CASE c = "\t" -> 9   [] c = "\n" -> 10  [] c = "\r" -> 13
      [] c = " " -> 32   [] c = "-" -> 45   [] c = "." -> 46
      [] c = "0" -> 48   [] c = "1" -> 49   [] c = "2" -> 50
      [] c = "5" -> 53   [] c = "L" -> 76   [] c = "N" -> 78
      [] c = "U" -> 85   [] c = "\\" -> 92  [] c = "a" -> 97
      [] c = "b" -> 98   [] c = "n" -> 110  [] c = "r" -> 114
      [] c = "|" -> 124

RECURSIVE StrLess(_, _)
StrLess(a, b) ==
    IF b = <<>> THEN FALSE
    ELSE IF a = <<>> THEN TRUE
    ELSE IF Head(a) = Head(b) THEN StrLess(Tail(a), Tail(b))
    ELSE CharCode(Head(a)) < CharCode(Head(b))

(***************************************************************************)
(* Value's derived PartialEq: same variant and same payload.               *)
(***************************************************************************)
ValueEq(a, b) == a.tag = b.tag /\ (a.tag = "Null" \/ a.v = b.v)

\* a < b for two payloads of the same non-null variant
PayloadLess(tag, a, b) == IF tag = "Text" THEN StrLess(a, b) ELSE a < b

SameTyped(l, r) == l.tag = r.tag /\ l.tag # "Null"

compare_values(left, operator, right) ==
    CASE operator = "Equals" -> ValueEq(left, right)
      [] operator = "NotEquals" -> ~ValueEq(left, right)
      [] operator = "GreaterThan" ->
            SameTyped(left, right) /\ PayloadLess(left.tag, right.v, left.v)
      [] operator = "LessThan" ->
            SameTyped(left, right) /\ PayloadLess(left.tag, left.v, right.v)
      [] operator = "GreaterOrEqual" ->
            SameTyped(left, right) /\ ~PayloadLess(left.tag, left.v, right.v)
      [] operator = "LessOrEqual" ->
            SameTyped(left, right) /\ ~PayloadLess(left.tag, right.v, left.v)

(***************************************************************************)
(* storage/btree.rs: IndexKey and Index.  A key holds its variant's rank   *)
(* in the enum declaration, which the derived Ord compares first.  The     *)
(* tree is the BTreeMap as the sequence of its entries in key order.       *)
(***************************************************************************)
IndexKeyFrom(value) ==
    CASE value.tag = "Int" -> [variant |-> 0, k |-> value.v]
      [] value.tag = "Text" -> [variant |-> 1, k |-> value.v]
      [] value.tag = "Float" -> [variant |-> 2, k |-> value.v]
      [] value.tag = "Null" -> [variant |-> 3, k |-> 0]

KeyEq(a, b) == a.variant = b.variant /\ a.k = b.k

KeyLess(a, b) ==
    \/ a.variant < b.variant
    \/ /\ a.variant = b.variant
       /\ CASE a.variant = 1 -> StrLess(a.k, b.k)
            [] a.variant = 3 -> FALSE
            [] OTHER -> a.k < b.k

Index_new(column_name, column_index) ==
    [column_name |-> column_name, column_index |-> column_index, tree |-> <<>>]

\* tree.entry(key).or_insert_with(Vec::new).push(row_idx)
RECURSIVE TreePush(_, _, _)
TreePush(tree, key, row_idx) ==
    IF tree = <<>> THEN <<[key |-> key, rows |-> <<row_idx>>]>>
    ELSE IF KeyEq(Head(tree).key, key)
        THEN <<[key |-> key, rows |-> Append(Head(tree).rows, row_idx)]>> \o Tail(tree)
    ELSE IF KeyLess(key, Head(tree).key)
        THEN <<[key |-> key, rows |-> <<row_idx>>]>> \o tree
    ELSE <<Head(tree)>> \o TreePush(Tail(tree), key, row_idx)

\* rows.get(i)
RowGet(row, i) == IF i < Len(row) THEN Some(row[i + 1]) ELSE None

RECURSIVE BuildFrom(_, _, _, _)
BuildFrom(column_index, rows, row_idx, tree) ==
    IF row_idx >= Len(rows) THEN tree
    ELSE LET got == RowGet(rows[row_idx + 1], column_index)
         IN  BuildFrom(column_index, rows, row_idx + 1,
                       IF got.some THEN TreePush(tree, IndexKeyFrom(got.v), row_idx)
                       ELSE tree)

\* a variant that adds the rows to what the index holds already
Index_build_mut_keep(index, rows) ==
    [index EXCEPT !.tree = BuildFrom(index.column_index, rows, 0, index.tree)]

Index_build(index, rows) ==
    [index EXCEPT !.tree = BuildFrom(index.column_index, rows, 0, <<>>)]

\* a variant that puts the new position first in its key's list
Index_insert_mut_front(index, row_idx, value) ==
    LET key == IndexKeyFrom(value)
        pushed == TreePush(index.tree, key, row_idx)
        front(rows) == <<row_idx>> \o SubSeq(rows, 1, Len(rows) - 1)
    IN  [index EXCEPT !.tree =
            [e \in 1..Len(pushed) |->
                IF KeyEq(pushed[e].key, key)
                THEN [key |-> key, rows |-> front(pushed[e].rows)]
                ELSE pushed[e]]]

Index_insert(index, row_idx, value) ==
    [index EXCEPT !.tree = TreePush(index.tree, IndexKeyFrom(value), row_idx)]

RECURSIVE TreeGet(_, _)
TreeGet(tree, key) ==
    IF tree = <<>> THEN None
    ELSE IF KeyEq(Head(tree).key, key) THEN Some(Head(tree).rows)
    ELSE TreeGet(Tail(tree), key)

Index_lookup(index, value) == TreeGet(index.tree, IndexKeyFrom(value))

\* The position lists of the entries with start_key <= key <= end_key, in
\* key order: tree.range(start_key..=end_key)
RECURSIVE TreeBetween(_, _, _)
TreeBetween(tree, start_key, end_key) ==
    IF tree = <<>> THEN <<>>
    ELSE (IF ~KeyLess(Head(tree).key, start_key) /\ ~KeyLess(end_key, Head(tree).key)
          THEN Head(tree).rows ELSE <<>>)
         \o TreeBetween(Tail(tree), start_key, end_key)

\* a variant that ranges over start_key..end_key, the end left out
Index_range_lookup_mut_exclusive(index, start, end) ==
    LET start_key == IndexKeyFrom(start)
        end_key == IndexKeyFrom(end)
        inner == SelectSeq(index.tree, LAMBDA e : ~KeyEq(e.key, end_key))
    IN  IF index.tree # <<>> /\ KeyLess(end_key, start_key) THEN Err("Panic")
        ELSE Ok(TreeBetween(inner, start_key, end_key))

\* BTreeMap::range searches the tree from its root, and the search panics
\* when the start of the range is above its end; a map without entries has
\* no root and gives the empty range
Index_range_lookup(index, start, end) ==
    LET start_key == IndexKeyFrom(start)
        end_key == IndexKeyFrom(end)
    IN  IF index.tree # <<>> /\ KeyLess(end_key, start_key) THEN Err("Panic")
        ELSE Ok(TreeBetween(index.tree, start_key, end_key))

\* The position lists of the entries beyond `key`, in key order: those with
\* a greater key (tree.range((Excluded(key), Unbounded))) when `above`, else
\* those with a smaller key (tree.range(..key)).
RECURSIVE TreeRange(_, _, _)
TreeRange(tree, key, above) ==
    IF tree = <<>> THEN <<>>
    ELSE (IF (IF above THEN KeyLess(key, Head(tree).key)
                       ELSE KeyLess(Head(tree).key, key))
          THEN Head(tree).rows ELSE <<>>)
         \o TreeRange(Tail(tree), key, above)

\* a variant that takes the entry of the key itself too
Index_greater_than_mut_inclusive(index, value) ==
    LET found == TreeGet(index.tree, IndexKeyFrom(value))
    IN  (IF found.some THEN found.v ELSE <<>>)
        \o TreeRange(index.tree, IndexKeyFrom(value), TRUE)

Index_greater_than(index, value) ==
    TreeRange(index.tree, IndexKeyFrom(value), TRUE)

Index_less_than(index, value) ==
    TreeRange(index.tree, IndexKeyFrom(value), FALSE)

(***************************************************************************)
(* storage/mod.rs: Table                                                   *)
(***************************************************************************)
Table_new(name, columns) == [name |-> name, columns |-> columns, rows |-> <<>>]

\* columns.iter().position(|c| c.name == column_name)
get_column_index(table, column_name) ==
    LET hits == {i \in 1..Len(table.columns) : table.columns[i].name = column_name}
    IN  IF hits = {} THEN None
        ELSE Some((CHOOSE i \in hits : \A j \in hits : i <= j) - 1)

(***************************************************************************)
(* storage/disk.rs: the text of a table file.  A file is the sequence of   *)
(* its characters.  Numbers are written in decimal; the float parser       *)
(* covers the forms f64's Display writes for the floats of the model       *)
(* (an optional sign, digits, an optional .5 or .0).                       *)
(***************************************************************************)
Digits == <<"0", "1", "2", "3", "4", "5", "6", "7", "8", "9">>

IsDigit(c) == \E d \in 1..Len(Digits) : Digits[d] = c

DigitVal(c) == (CHOOSE d \in 1..Len(Digits) : Digits[d] = c) - 1

RECURSIVE NatToString(_)
NatToString(n) ==
    IF n < Len(Digits) THEN <<Digits[n + 1]>>
    ELSE NatToString(n \div Len(Digits)) \o <<Digits[(n % Len(Digits)) + 1]>>

\* i64's Display
i64_to_string(n) == IF n < 0 THEN <<"-">> \o NatToString(-n) ELSE NatToString(n)

\* f64's Display, for a float worth h halves
f64_to_string(h) ==
    LET a == IF h < 0 THEN -h ELSE h
    IN  (IF h < 0 THEN <<"-">> ELSE <<>>)
        \o NatToString(a \div 2)
        \o (IF a % 2 = 1 THEN <<".", "5">> ELSE <<>>)

RECURSIVE DigitsToNat(_, _)
DigitsToNat(s, acc) ==
    IF s = <<>> THEN acc
    ELSE DigitsToNat(Tail(s), acc * Len(Digits) + DigitVal(Head(s)))

AllDigits(s) == s # <<>> /\ \A i \in 1..Len(s) : IsDigit(s[i])

\* str::parse::<i64>
parse_i64(s) ==
    LET signed == s # <<>> /\ Head(s) \in {"-", "+"}
        body == IF signed THEN Tail(s) ELSE s
    IN  IF ~AllDigits(body) THEN Err("InvalidData")
        ELSE IF signed /\ Head(s) = "-" THEN Ok(-DigitsToNat(body, 0))
        ELSE Ok(DigitsToNat(body, 0))

\* str::parse::<f64>, giving the number of halves
parse_f64(s) ==
    LET signed == s # <<>> /\ Head(s) \in {"-", "+"}
        body == IF signed THEN Tail(s) ELSE s
        dots == {i \in 1..Len(body) : body[i] = "."}
        whole == IF dots = {} THEN body
                 ELSE SubSeq(body, 1, (CHOOSE i \in dots : TRUE) - 1)
        frac == IF dots = {} THEN <<>>
                ELSE SubSeq(body, (CHOOSE i \in dots : TRUE) + 1, Len(body))
        halves == 2 * DigitsToNat(whole, 0) + (IF frac = <<"5">> THEN 1 ELSE 0)
    IN  IF Cardinality(dots) > 1 \/ ~AllDigits(whole)
           \/ (dots # {} /\ frac \notin {<<"5">>, <<"0">>})
        THEN Err("InvalidData")
        ELSE IF signed /\ Head(s) = "-" THEN Ok(-halves) ELSE Ok(halves)

\* str::replace(from, to) for a one-character `from`
RECURSIVE Replace(_, _, _)
Replace(s, from, to) ==
    IF s = <<>> THEN <<>>
    ELSE (IF Head(s) = from THEN to ELSE <<Head(s)>>) \o Replace(Tail(s), from, to)

\* a variant that escapes the backslash last
escape_string_mut_backslash_last(s) ==
    Replace(Replace(Replace(Replace(s, "|", <<"\\", "|">>),
                            "\n", <<"\\", "n">>),
                    "\r", <<"\\", "r">>),
            "\\", <<"\\", "\\">>)

escape_string(s) ==
    Replace(Replace(Replace(Replace(s, "\\", <<"\\", "\\">>),
                            "|", <<"\\", "|">>),
                    "\n", <<"\\", "n">>),
            "\r", <<"\\", "r">>)

RECURSIVE unescape_string(_)
unescape_string(s) ==
    IF s = <<>> THEN <<>>
    ELSE IF Head(s) = "\\" THEN
        IF Len(s) >= 2 THEN
            LET next == s[2]
                rest == unescape_string(SubSeq(s, 3, Len(s)))
            IN  CASE next = "\\" -> <<"\\">> \o rest
                  [] next = "|" -> <<"|">> \o rest
                  [] next = "n" -> <<"\n">> \o rest
                  [] next = "r" -> <<"\r">> \o rest
                  [] OTHER -> <<"\\", next>> \o rest
        ELSE <<"\\">>
    ELSE <<Head(s)>> \o unescape_string(Tail(s))

NullToken == <<"N", "U", "L", "L">>

datatype_to_string(dt) ==
    CASE dt = "Int" -> <<"I", "N", "T">>
      [] dt = "Text" -> <<"T", "E", "X", "T">>
      [] dt = "Float" -> <<"F", "L", "O", "A", "T">>

string_to_datatype(s) ==
    IF \E dt \in DataTypes : datatype_to_string(dt) = s
    THEN Ok(CHOOSE dt \in DataTypes : datatype_to_string(dt) = s)
    ELSE Err("InvalidData")

value_to_string(value) ==
    CASE value.tag = "Int" -> i64_to_string(value.v)
      [] value.tag = "Text" -> escape_string(value.v)
      [] value.tag = "Float" -> f64_to_string(value.v)
      [] value.tag = "Null" -> NullToken

\* a variant that reads the token NULL in a TEXT column as the text NULL
string_to_value_mut_text_null(s, data_type) ==
    IF s = NullToken /\ data_type # "Text" THEN Ok(NullV)
    ELSE CASE data_type = "Int" ->
                LET n == parse_i64(s) IN IF n.ok THEN Ok(IntV(n.v)) ELSE n
           [] data_type = "Text" -> Ok(TextV(unescape_string(s)))
           [] data_type = "Float" ->
                LET f == parse_f64(s) IN IF f.ok THEN Ok(FloatV(f.v)) ELSE f

string_to_value(s, data_type) ==
    IF s = NullToken THEN Ok(NullV)
    ELSE CASE data_type = "Int" ->
                LET n == parse_i64(s) IN IF n.ok THEN Ok(IntV(n.v)) ELSE n
           [] data_type = "Text" -> Ok(TextV(unescape_string(s)))
           [] data_type = "Float" ->
                LET f == parse_f64(s) IN IF f.ok THEN Ok(FloatV(f.v)) ELSE f

\* [String]::join(sep)
RECURSIVE Join(_, _)
Join(parts, sep) ==
    IF parts = <<>> THEN <<>>
    ELSE IF Len(parts) = 1 THEN parts[1]
    ELSE parts[1] \o sep \o Join(Tail(parts), sep)

\* str::split(sep): the pieces between the separators, at least one piece
RECURSIVE SplitAcc(_, _, _)
SplitAcc(s, sep, cur) ==
    IF s = <<>> THEN <<cur>>
    ELSE IF Head(s) = sep THEN <<cur>> \o SplitAcc(Tail(s), sep, <<>>)
    ELSE SplitAcc(Tail(s), sep, Append(cur, Head(s)))

Split(s, sep) == SplitAcc(s, sep, <<>>)

IsWhitespace(c) == c \in {" ", "\t", "\n", "\r"}

RECURSIVE TrimStart(_)
TrimStart(s) ==
    IF s # <<>> /\ IsWhitespace(Head(s)) THEN TrimStart(Tail(s)) ELSE s

RECURSIVE TrimEnd(_)
TrimEnd(s) ==
    IF s # <<>> /\ IsWhitespace(s[Len(s)]) THEN TrimEnd(SubSeq(s, 1, Len(s) - 1))
    ELSE s

\* str::trim
Trim(s) == TrimEnd(TrimStart(s))

\* the collected results of a sequence of fallible steps (the ? operator)
Collect(results) ==
    IF \E i \in 1..Len(results) : ~results[i].ok THEN Err("InvalidData")
    ELSE Ok([i \in 1..Len(results) |-> results[i].v])

\* what save_table writes when every write succeeds
table_file(table) ==
    LET schema == [i \in 1..Len(table.columns) |->
                      table.columns[i].name \o <<":">>
                      \o datatype_to_string(table.columns[i].data_type)]
        row_str(row) == [i \in 1..Len(row) |-> value_to_string(row[i])]
        lines == <<Join(schema, <<",">>)>>
                 \o [r \in 1..Len(table.rows) |-> Join(row_str(table.rows[r]), <<"|">>)]
    IN  [i \in 1..Len(lines) |-> lines[i] \o <<"\n">>]

parse_schema(schema_line) ==
    LET defs == Split(schema_line, ",")
        one(col_def) ==
            LET parts == Split(col_def, ":")
            IN  IF Len(parts) # 2 THEN Err("InvalidData")
                ELSE LET dt == string_to_datatype(parts[2])
                     IN  IF dt.ok THEN Ok(Column(parts[1], dt.v)) ELSE dt
    IN  Collect([i \in 1..Len(defs) |-> one(defs[i])])

parse_row(line, columns) ==
    LET parts == Split(line, "|")
    IN  IF Len(parts) # Len(columns) THEN Err("InvalidData")
        ELSE Collect([i \in 1..Len(parts) |->
                         string_to_value(parts[i], columns[i].data_type)])

\* BufRead::lines over the text left after the schema line
BufLines(text) ==
    LET parts == Split(text, "\n")
        n == Len(parts)
        strip(l) == IF l # <<>> /\ l[Len(l)] = "\r" THEN SubSeq(l, 1, Len(l) - 1) ELSE l
        ended == [i \in 1..(n - 1) |-> strip(parts[i])]
    IN  IF parts[n] = <<>> THEN ended ELSE Append(ended, parts[n])

\* load_table on the contents of the table's file
load_table(table_name, text) ==
    LET nl == {i \in 1..Len(text) : text[i] = "\n"}
        cut == IF nl = {} THEN Len(text) ELSE CHOOSE i \in nl : \A j \in nl : i <= j
        schema_line == Trim(SubSeq(text, 1, cut))
        columns == parse_schema(schema_line)
        lines == BufLines(SubSeq(text, cut + 1, Len(text)))
        kept == SelectSeq(lines, LAMBDA l : Trim(l) # <<>>)
        rows == Collect([i \in 1..Len(kept) |-> parse_row(kept[i], columns.v)])
    IN  IF ~columns.ok THEN columns
        ELSE IF ~rows.ok THEN rows
        ELSE Ok([name |-> table_name, columns |-> columns.v, rows |-> rows.v])

\* the contents of a file holding these lines
file_text(lines) == Join(lines, <<>>)

NoFile == [exists |-> FALSE]
FileOf(text) == [exists |-> TRUE, text |-> text]

(***************************************************************************)
(* save_table against the data directory D.  `io` is what the file system  *)
(* does: IoOk; IoCreateFails (init_data_dir or File::create returns an     *)
(* error and the file is untouched); or IoWriteFails(k), when File::create *)
(* has truncated the file and the write after k whole lines fails.         *)
(***************************************************************************)
IoOk == [kind |-> "ok"]
IoCreateFails == [kind |-> "create_fails"]
IoWriteFails(k) == [kind |-> "write_fails", lines |-> k]

\* a variant that opens the file for appending instead of truncating it
save_table_mut_append(D, table, io) ==
    LET text == file_text(table_file(table))
        old == IF D[table.name].exists THEN D[table.name].text ELSE <<>>
    IN  IF io.kind = "ok"
        THEN [disk |-> [D EXCEPT ![table.name] = FileOf(old \o text)], res |-> Ok("saved")]
        ELSE [disk |-> D, res |-> Err("Io")]

\* a variant that, when the file exists and the table has rows, adds the line
\* of the last row to the file instead of writing the file anew
save_table_mut_last_line(D, table, io) ==
    LET lines == table_file(table)
        old == D[table.name]
    IN  IF io.kind = "ok"
        THEN [disk |-> [D EXCEPT ![table.name] =
                           IF old.exists /\ table.rows # <<>>
                           THEN FileOf(old.text \o lines[Len(lines)])
                           ELSE FileOf(file_text(lines))],
              res |-> Ok("saved")]
        ELSE [disk |-> D, res |-> Err("Io")]

save_table(D, table, io) ==
    LET lines == table_file(table)
    IN  CASE io.kind = "ok" ->
                [disk |-> [D EXCEPT ![table.name] = FileOf(file_text(lines))],
                 res |-> Ok("saved")]
          [] io.kind = "create_fails" -> [disk |-> D, res |-> Err("Io")]
          [] io.kind = "write_fails" ->
                LET done == IF io.lines < Len(lines) THEN io.lines ELSE Len(lines) - 1
                IN  [disk |-> [D EXCEPT ![table.name] =
                                  FileOf(file_text(SubSeq(lines, 1, done)))],
                     res |-> Err("Io")]

(***************************************************************************)
(* storage/mod.rs: Database.  Each operation maps the registries T, I and  *)
(* the data directory D to their new values and the caller's result.       *)
(***************************************************************************)
Out(T, I, D, res) == [tables |-> T, indexes |-> I, disk |-> D, res |-> res]

\* HashMap::insert
MapPut(m, k, v) == [x \in DOMAIN m \cup {k} |-> IF x = k THEN v ELSE m[x]]

\* a variant that lets an integer into a FLOAT column
TypeCompatible_mut_coerce(value, data_type) ==
    \/ value.tag = "Null"
    \/ value.tag = data_type
    \/ (value.tag = "Int" /\ data_type = "Float")

\* the match on (value, data_type) of insert_row and update_rows
TypeCompatible(value, data_type) == value.tag = "Null" \/ value.tag = data_type

\* a variant that registers the table before it saves it
create_table_mut_register_first(T, I, D, name, columns, io) ==
    IF name \in DOMAIN T THEN Out(T, I, D, Err("TableExists"))
    ELSE LET table == Table_new(name, columns)
             saved == save_table(D, table, io)
         IN  Out(MapPut(T, name, table), I, saved.disk,
                 IF saved.res.ok THEN Ok("created") ELSE Err("Io"))

\* a variant that replaces a table of the same name by the empty one
create_table_mut_replace(T, I, D, name, columns, io) ==
    LET table == Table_new(name, columns)
        saved == save_table(D, table, io)
    IN  IF ~saved.res.ok THEN Out(T, I, saved.disk, Err("Io"))
        ELSE Out(MapPut(T, name, table), I, saved.disk, Ok("created"))

create_table(T, I, D, name, columns, io) ==
    IF name \in DOMAIN T THEN Out(T, I, D, Err("TableExists"))
    ELSE LET table == Table_new(name, columns)
             saved == save_table(D, table, io)
         IN  IF ~saved.res.ok THEN Out(T, I, saved.disk, Err("Io"))
             ELSE Out(MapPut(T, name, table), I, saved.disk, Ok("created"))

\* a variant that drops the table's other indexes
create_index_mut_alone(T, I, D, table_name, column_name) ==
    IF table_name \notin DOMAIN T THEN Out(T, I, D, Err("NoTable"))
    ELSE LET table == T[table_name]
             column_index == get_column_index(table, column_name)
         IN  IF ~column_index.some THEN Out(T, I, D, Err("NoColumn"))
             ELSE LET index == Index_build(Index_new(column_name, column_index.v),
                                           table.rows)
                  IN  Out(T, MapPut(I, table_name, MapPut(<<>>, column_name, index)),
                          D, Ok("indexed"))

create_index(T, I, D, table_name, column_name) ==
    IF table_name \notin DOMAIN T THEN Out(T, I, D, Err("NoTable"))
    ELSE LET table == T[table_name]
             column_index == get_column_index(table, column_name)
         IN  IF ~column_index.some THEN Out(T, I, D, Err("NoColumn"))
             ELSE LET index == Index_build(Index_new(column_name, column_index.v),
                                           table.rows)
                      of_table == IF table_name \in DOMAIN I THEN I[table_name] ELSE <<>>
                  IN  Out(T, MapPut(I, table_name, MapPut(of_table, column_name, index)),
                          D, Ok("indexed"))

\* a variant that refuses only the rows longer than the column list
insert_validate_mut_short(T, table_name, values) ==
    IF table_name \notin DOMAIN T THEN Err("NoTable")
    ELSE LET table == T[table_name]
         IN  IF Len(values) > Len(table.columns) THEN Err("Arity")
             ELSE IF \E i \in 1..Len(values) :
                        ~TypeCompatible(values[i], table.columns[i].data_type)
                 THEN Err("TypeMismatch")
             ELSE Ok("valid")

\* insert_row's checks: the table exists, the value count, the value types
insert_validate(T, table_name, values) ==
    IF table_name \notin DOMAIN T THEN Err("NoTable")
    ELSE LET table == T[table_name]
         IN  IF Len(values) # Len(table.columns) THEN Err("Arity")
             ELSE IF \E i \in 1..Len(values) :
                        ~TypeCompatible(values[i], table.columns[i].data_type)
                 THEN Err("TypeMismatch")
             ELSE Ok("valid")

\* a variant that takes the row back out when the table cannot be saved
insert_apply_mut_rollback(T, I, D, table_name, values, io) ==
    LET pushed == [T[table_name] EXCEPT !.rows = Append(@, values)]
        saved == save_table(D, pushed, io)
    IN  IF saved.res.ok
        THEN Out([T EXCEPT ![table_name] = pushed],
                 IF table_name \in DOMAIN I
                 THEN [I EXCEPT ![table_name] =
                          [c \in DOMAIN @ |-> Index_build(@[c], pushed.rows)]]
                 ELSE I, saved.disk, Ok("inserted"))
        ELSE Out(T, I, saved.disk, Err("Io"))

\* a variant that leaves the indexes as they were
insert_apply_mut_unindexed(T, I, D, table_name, values, io) ==
    LET pushed == [T[table_name] EXCEPT !.rows = Append(@, values)]
        saved == save_table(D, pushed, io)
    IN  Out([T EXCEPT ![table_name] = pushed], I, saved.disk,
            IF saved.res.ok THEN Ok("inserted") ELSE Err("Io"))

\* insert_row's mutation: push the row, extend the indexes, save the table
insert_apply(T, I, D, table_name, values, io) ==
    LET table == T[table_name]
        row_idx == Len(table.rows)
        pushed == [table EXCEPT !.rows = Append(@, values)]
        extend(index) ==
            LET value == RowGet(values, index.column_index)
            IN  IF value.some THEN Index_insert(index, row_idx, value.v) ELSE index
        I2 == IF table_name \in DOMAIN I
              THEN [I EXCEPT ![table_name] = [c \in DOMAIN @ |-> extend(@[c])]]
              ELSE I
        saved == save_table(D, pushed, io)
    IN  Out([T EXCEPT ![table_name] = pushed], I2, saved.disk,
            IF saved.res.ok THEN Ok("inserted") ELSE Err("Io"))

\* a variant that checks the value count and types after the row is in
insert_row_mut_late_check(T, I, D, table_name, values, io) ==
    IF table_name \notin DOMAIN T THEN Out(T, I, D, Err("NoTable"))
    ELSE LET valid == insert_validate(T, table_name, values)
             out == insert_apply(T, I, D, table_name, values, io)
         IN  IF valid.ok THEN out ELSE [out EXCEPT !.res = valid]

insert_row(T, I, D, table_name, values, io) ==
    LET valid == insert_validate(T, table_name, values)
    IN  IF ~valid.ok THEN Out(T, I, D, valid)
        ELSE insert_apply(T, I, D, table_name, values, io)

\* the positions of the rows whose value at col_idx satisfies the filter
Matching(rows, col_idx, where_clause) ==
    {p \in 0..(Len(rows) - 1) :
        LET value == RowGet(rows[p + 1], col_idx)
        IN  value.some /\ compare_values(value.v, where_clause.operator,
                                         where_clause.value)}

\* a variant that removes the positions of `gone` lowest first
RemoveDescending_mut_ascending(rows, gone, idx) ==
    LET RECURSIVE Up(_, _)
        Up(r, k) ==
            IF k > idx THEN r
            ELSE Up(IF k \in gone
                    THEN SubSeq(r, 1, k) \o SubSeq(r, k + 2, Len(r))
                    ELSE r,
                    k + 1)
    IN  Up(rows, 0)

\* Vec::remove of every position of `gone`, highest first
RECURSIVE RemoveDescending(_, _, _)
RemoveDescending(rows, gone, idx) ==
    IF idx < 0 THEN rows
    ELSE RemoveDescending(
            IF idx \in gone
            THEN SubSeq(rows, 1, idx) \o SubSeq(rows, idx + 2, Len(rows))
            ELSE rows,
            gone, idx - 1)

\* a variant that leaves the indexes as they were
RebuildAll_mut_stale(I, table_name, rows) == I

\* index.build(&table.rows) for every index of the table
RebuildAll(I, table_name, rows) ==
    IF table_name \in DOMAIN I
    THEN [I EXCEPT ![table_name] = [c \in DOMAIN @ |-> Index_build(@[c], rows)]]
    ELSE I

\* a variant that removes the rows and leaves the indexes as they were
delete_rows_mut_no_rebuild(T, I, D, table_name, filter, io) ==
    IF table_name \notin DOMAIN T THEN Out(T, I, D, Err("NoTable"))
    ELSE LET table == T[table_name]
             col_idx == IF filter.some THEN get_column_index(table, filter.v.column)
                        ELSE None
         IN  IF filter.some /\ ~col_idx.some THEN Out(T, I, D, Err("NoColumn"))
             ELSE LET indices_to_delete ==
                          IF filter.some THEN Matching(table.rows, col_idx.v, filter.v)
                          ELSE 0..(Len(table.rows) - 1)
                      kept == [table EXCEPT !.rows =
                                  RemoveDescending(@, indices_to_delete, Len(@) - 1)]
                      saved == save_table(D, kept, io)
                  IN  Out([T EXCEPT ![table_name] = kept], I, saved.disk,
                          IF saved.res.ok THEN Ok(Cardinality(indices_to_delete))
                          ELSE Err("Io"))

delete_rows(T, I, D, table_name, filter, io) ==
    IF table_name \notin DOMAIN T THEN Out(T, I, D, Err("NoTable"))
    ELSE LET table == T[table_name]
             col_idx == IF filter.some THEN get_column_index(table, filter.v.column)
                        ELSE None
         IN  IF filter.some /\ ~col_idx.some THEN Out(T, I, D, Err("NoColumn"))
             ELSE LET indices_to_delete ==
                          IF filter.some THEN Matching(table.rows, col_idx.v, filter.v)
                          ELSE 0..(Len(table.rows) - 1)
                      count == Cardinality(indices_to_delete)
                      kept == [table EXCEPT !.rows =
                                  RemoveDescending(@, indices_to_delete, Len(@) - 1)]
                      saved == save_table(D, kept, io)
                  IN  Out([T EXCEPT ![table_name] = kept],
                          RebuildAll(I, table_name, kept.rows), saved.disk,
                          IF saved.res.ok THEN Ok(count) ELSE Err("Io"))

\* a variant that sets the column in every row, whatever the filter
update_rows_mut_all(T, I, D, table_name, column_name, new_value, filter, io) ==
    IF table_name \notin DOMAIN T THEN Out(T, I, D, Err("NoTable"))
    ELSE LET table == T[table_name]
             update_col_idx == get_column_index(table, column_name)
         IN  IF ~update_col_idx.some THEN Out(T, I, D, Err("NoColumn"))
             ELSE IF ~TypeCompatible(new_value,
                                     table.columns[update_col_idx.v + 1].data_type)
                 THEN Out(T, I, D, Err("TypeMismatch"))
             ELSE IF filter.some /\ ~get_column_index(table, filter.v.column).some
                 THEN Out(T, I, D, Err("NoColumn"))
             ELSE LET updated == [table EXCEPT !.rows =
                          [p \in 1..Len(table.rows) |->
                              [table.rows[p] EXCEPT ![update_col_idx.v + 1] = new_value]]]
                      saved == save_table(D, updated, io)
                  IN  Out([T EXCEPT ![table_name] = updated],
                          RebuildAll(I, table_name, updated.rows), saved.disk,
                          IF saved.res.ok THEN Ok(Len(table.rows)) ELSE Err("Io"))

update_rows(T, I, D, table_name, column_name, new_value, filter, io) ==
    IF table_name \notin DOMAIN T THEN Out(T, I, D, Err("NoTable"))
    ELSE LET table == T[table_name]
             update_col_idx == get_column_index(table, column_name)
         IN  IF ~update_col_idx.some THEN Out(T, I, D, Err("NoColumn"))
             ELSE IF ~TypeCompatible(new_value,
                                     table.columns[update_col_idx.v + 1].data_type)
                 THEN Out(T, I, D, Err("TypeMismatch"))
             ELSE LET filter_col_idx ==
                          IF filter.some THEN get_column_index(table, filter.v.column)
                          ELSE None
                  IN  IF filter.some /\ ~filter_col_idx.some
                      THEN Out(T, I, D, Err("NoColumn"))
                      ELSE LET hit == IF filter.some
                                      THEN Matching(table.rows, filter_col_idx.v, filter.v)
                                      ELSE 0..(Len(table.rows) - 1)
                               set(row) == [row EXCEPT ![update_col_idx.v + 1] = new_value]
                               updated == [table EXCEPT !.rows =
                                   [p \in 1..Len(table.rows) |->
                                       IF (p - 1) \in hit THEN set(table.rows[p])
                                       ELSE table.rows[p]]]
                               I2 == IF table_name \in DOMAIN I
                                        /\ column_name \in DOMAIN I[table_name]
                                     THEN RebuildAll(I, table_name, updated.rows)
                                     ELSE I
                               saved == save_table(D, updated, io)
                           IN  Out([T EXCEPT ![table_name] = updated], I2, saved.disk,
                                   IF saved.res.ok THEN Ok(Cardinality(hit))
                                   ELSE Err("Io"))

\* a variant that gives up on the whole directory at the first file that
\* does not parse
load_from_disk_mut_abort(D) ==
    LET loaded(n) == load_table(n, D[n].text)
        files == {n \in DOMAIN D : D[n].exists}
    IN  IF \E n \in files : ~loaded(n).ok THEN Out(<<>>, <<>>, D, Ok("loaded"))
        ELSE Out([n \in files |-> loaded(n).v], <<>>, D, Ok("loaded"))

\* a variant that indexes the first column of every table it loads
load_from_disk_mut_indexed(D) ==
    LET loaded(n) == load_table(n, D[n].text)
        names == {n \in DOMAIN D : D[n].exists /\ loaded(n).ok}
        first(n) == loaded(n).v.columns[1].name
    IN  Out([n \in names |-> loaded(n).v],
            [n \in names |->
                [c \in {first(n)} |-> Index_build(Index_new(c, 0), loaded(n).v.rows)]],
            D, Ok("loaded"))

\* load_from_disk: every table file that parses, and no index
load_from_disk(D) ==
    LET loaded(n) == load_table(n, D[n].text)
        names == {n \in DOMAIN D : D[n].exists /\ loaded(n).ok}
    IN  Out([n \in names |-> loaded(n).v], <<>>, D, Ok("loaded"))

(***************************************************************************)
(* Queries.  filter_rows and filter_with_index call each other; `depth`    *)
(* counts the frames in use, and a call that needs more than MaxStack of   *)
(* them ends the process (Err("StackOverflow")): Rust aborts on stack      *)
(* exhaustion, and no result is ever returned.                             *)
(***************************************************************************)
Scanned(table, col_idx, where_clause) ==
    SelectSeq(table.rows,
              LAMBDA row : LET value == RowGet(row, col_idx)
                           IN  value.some /\ compare_values(value.v, where_clause.operator,
                                                            where_clause.value))

\* row_indices.iter().filter_map(|&idx| table.rows.get(idx).cloned())
RowsAt(table, row_indices) ==
    LET live == SelectSeq(row_indices, LAMBDA idx : idx < Len(table.rows))
    IN  [i \in 1..Len(live) |-> table.rows[live[i] + 1]]

RECURSIVE filter_rows(_, _, _, _)
RECURSIVE filter_with_index(_, _, _, _, _)

filter_rows(I, table, where_clause, depth) ==
    IF depth > MaxStack THEN Err("StackOverflow")
    ELSE LET col_idx == get_column_index(table, where_clause.column)
         IN  IF ~col_idx.some THEN Err("NoColumn")
             ELSE IF table.name \in DOMAIN I /\ where_clause.column \in DOMAIN I[table.name]
                 THEN filter_with_index(I, table, I[table.name][where_clause.column],
                                        where_clause, depth + 1)
             ELSE Ok(Scanned(table, col_idx.v, where_clause))

filter_with_index(I, table, index, where_clause, depth) ==
    IF depth > MaxStack THEN Err("StackOverflow")
    ELSE CASE where_clause.operator = "Equals" ->
                LET found == Index_lookup(index, where_clause.value)
                IN  Ok(RowsAt(table, IF found.some THEN found.v ELSE <<>>))
           [] where_clause.operator = "GreaterThan" ->
                Ok(RowsAt(table, Index_greater_than(index, where_clause.value)))
           [] where_clause.operator = "LessThan" ->
                Ok(RowsAt(table, Index_less_than(index, where_clause.value)))
           [] OTHER -> filter_rows(I, table, where_clause, depth + 1)

select_all(T, table_name) ==
    IF table_name \notin DOMAIN T THEN Err("NoTable")
    ELSE LET table == T[table_name]
         IN  Ok([columns |-> [i \in 1..Len(table.columns) |-> table.columns[i].name],
                 rows |-> table.rows])

\* a variant that gives, for k requested columns, the first k values of a row
select_with_filter_mut_leading(T, I, table_name, columns, filter) ==
    IF table_name \notin DOMAIN T THEN Err("NoTable")
    ELSE LET table == T[table_name]
             found == [i \in 1..Len(columns) |-> get_column_index(table, columns[i])]
             width == IF columns = <<>> THEN Len(table.columns) ELSE Len(columns)
             column_names == IF columns = <<>>
                             THEN [i \in 1..Len(table.columns) |-> table.columns[i].name]
                             ELSE columns
             filtered_rows == IF filter.some THEN filter_rows(I, table, filter.v, 1)
                              ELSE Ok(table.rows)
             project(row) == [i \in 1..width |->
                                 LET value == RowGet(row, i - 1)
                                 IN  IF value.some THEN value.v ELSE NullV]
         IN  IF \E i \in 1..Len(columns) : ~found[i].some THEN Err("NoColumn")
             ELSE IF ~filtered_rows.ok THEN filtered_rows
             ELSE Ok([columns |-> column_names,
                      rows |-> [r \in 1..Len(filtered_rows.v) |->
                                   project(filtered_rows.v[r])]])

select_with_filter(T, I, table_name, columns, filter) ==
    IF table_name \notin DOMAIN T THEN Err("NoTable")
    ELSE LET table == T[table_name]
             found == [i \in 1..Len(columns) |-> get_column_index(table, columns[i])]
             col_indices == IF columns = <<>> THEN [i \in 1..Len(table.columns) |-> i - 1]
                            ELSE [i \in 1..Len(columns) |-> found[i].v]
             column_names == IF columns = <<>>
                             THEN [i \in 1..Len(table.columns) |-> table.columns[i].name]
                             ELSE columns
             filtered_rows == IF filter.some THEN filter_rows(I, table, filter.v, 1)
                              ELSE Ok(table.rows)
             project(row) == [i \in 1..Len(col_indices) |->
                                 LET value == RowGet(row, col_indices[i])
                                 IN  IF value.some THEN value.v ELSE NullV]
         IN  IF \E i \in 1..Len(columns) : ~found[i].some THEN Err("NoColumn")
             ELSE IF ~filtered_rows.ok THEN filtered_rows
             ELSE Ok([columns |-> column_names,
                      rows |-> [r \in 1..Len(filtered_rows.v) |->
                                   project(filtered_rows.v[r])]])

(***************************************************************************)
(* executor/mod.rs: execute, for a Scan plan                               *)
(***************************************************************************)
execute_Scan(T, I, table_name, columns, filter) ==
    IF columns = <<>> THEN select_all(T, table_name)
    ELSE select_with_filter(T, I, table_name, columns, filter)

(***************************************************************************)
(* The inputs the operations are driven with.                              *)
(***************************************************************************)
id == <<"i", "d">>
name == <<"n", "a", "m", "e">>
val == <<"v", "a", "l">>
ghost == <<"g", "h", "o", "s", "t">>     \* a column no table has

ColumnNames == {id, name, val, ghost}

\* CREATE TABLE t (id INT, name TEXT) and CREATE TABLE u (val FLOAT)
SchemaOf(table_name) ==
    IF table_name = "t" THEN <<Column(id, "Int"), Column(name, "Text")>>
    ELSE <<Column(val, "Float")>>

\* rows of the wrong length or with a value of the wrong type for t and u
BadRows == {<<IntV(1)>>, <<TextV(<<"a">>), TextV(<<"a">>)>>}

\* the rows offered to insert_row
RowInputs ==
    {<<i, n>> : i \in {IntV(1), NullV}, n \in {TextV(<<"a">>), TextV(<<"|">>)}}
    \cup {<<FloatV(3)>>} \cup BadRows

\* the filters offered to delete_rows and update_rows
FilterInputs ==
    {None,
     Some(WhereClause(id, "Equals", IntV(1))),
     Some(WhereClause(id, "LessOrEqual", IntV(1))),
     Some(WhereClause(name, "NotEquals", TextV(<<"a">>))),
     Some(WhereClause(ghost, "Equals", IntV(1)))}

\* the (column, new value) pairs offered to update_rows
UpdateInputs ==
    {<<id, IntV(1)>>, <<id, NullV>>, <<name, TextV(<<"|">>)>>,
     <<id, TextV(<<"a">>)>>, <<ghost, IntV(1)>>}

TotalRows(T) ==
    LET RECURSIVE Sum(_)
        Sum(S) == IF S = {} THEN 0
                  ELSE LET n == CHOOSE n \in S : TRUE
                       IN  Len(T[n].rows) + Sum(S \ {n})
    IN  Sum(DOMAIN T)

\* what the file system may do to a write of up to n + 1 lines, when writes
\* may fail at all
IoChoices(may_fail, n) ==
    IF may_fail /\ faults < MaxFaults
    THEN {IoOk, IoCreateFails} \cup {IoWriteFails(k) : k \in 0..n}
    ELSE {IoOk}

\* self.indexes.get(table_name) and then get(column_name) give an index
IndexOn(table_name, column_name) ==
    table_name \in DOMAIN indexes /\ column_name \in DOMAIN indexes[table_name]

LinesOf(table_name) ==
    IF table_name \in DOMAIN tables THEN Len(tables[table_name].rows) + 1 ELSE 1

(***************************************************************************)
(* The state machine.  Each action is one call of a Database operation     *)
(* with inputs from the given sets.                                        *)
(***************************************************************************)
Init ==
    /\ tables = <<>>
    /\ indexes = <<>>
    /\ disk = [n \in {"t", "u"} |-> NoFile]
    /\ last = [op |-> "new", table |-> "", res |-> Ok("new")]
    /\ faults = 0

IsErr(res, kind) == ~res.ok /\ res.err = kind

Apply(op, table_name, out) ==
    /\ tables' = out.tables
    /\ indexes' = out.indexes
    /\ disk' = out.disk
    /\ last' = [op |-> op, table |-> table_name, res |-> out.res]
    /\ faults' = IF IsErr(out.res, "Io") THEN faults + 1 ELSE faults

CreateTable(names, may_fail) ==
    \E table_name \in names : \E io \in IoChoices(may_fail, 0) :
        Apply("create_table", table_name,
              create_table(tables, indexes, disk, table_name, SchemaOf(table_name), io))

CreateIndex(names) ==
    \E table_name \in names, column_name \in ColumnNames :
        Apply("create_index", table_name,
              create_index(tables, indexes, disk, table_name, column_name))

InsertRow(names, rows, may_fail) ==
    /\ TotalRows(tables) < MaxRows
    /\ \E table_name \in names, values \in rows :
          \E io \in IoChoices(may_fail, LinesOf(table_name)) :
              Apply("insert_row", table_name,
                    insert_row(tables, indexes, disk, table_name, values, io))

DeleteRows(names, filters, may_fail) ==
    \E table_name \in names, filter \in filters :
        \E io \in IoChoices(may_fail, LinesOf(table_name)) :
            Apply("delete_rows", table_name,
                  delete_rows(tables, indexes, disk, table_name, filter, io))

UpdateRows(names, sets, filters, may_fail) ==
    \E table_name \in names, set \in sets, filter \in filters :
        \E io \in IoChoices(may_fail, LinesOf(table_name)) :
            Apply("update_rows", table_name,
                  update_rows(tables, indexes, disk, table_name, set[1], set[2],
                              filter, io))

\* the process ends and a new one starts: Repl::new
Reload ==
    Apply("load_from_disk", "", load_from_disk(disk))

\* execute(Plan::Scan { table_name, columns, filter }): nothing is changed
Scan(names, column_lists, filters) ==
    \E table_name \in names, columns \in column_lists, filter \in filters :
        /\ last' = [op |-> "scan", table |-> table_name,
                    res |-> execute_Scan(tables, indexes, table_name, columns, filter),
                    columns |-> columns, filter |-> filter]
        /\ UNCHANGED <<tables, indexes, disk, faults>>

\* The storage engine with a disk that takes every write.
Next ==
    \/ CreateTable({"t", "u"}, FALSE)
    \/ CreateIndex({"t", "u"})
    \/ InsertRow({"t", "u"}, RowInputs, FALSE)
    \/ DeleteRows({"t", "u"}, FilterInputs, FALSE)
    \/ UpdateRows({"t", "u"}, UpdateInputs, FilterInputs, FALSE)
    \/ Reload

Spec == Init /\ [][Next]_vars

\* The storage engine on one table with a disk whose writes may fail.
FaultRows == {<<IntV(1), TextV(<<"a">>)>>, <<NullV, TextV(<<"|">>)>>} \cup BadRows

FaultFilters == {None, Some(WhereClause(id, "Equals", IntV(1)))}

FaultUpdates == {<<name, TextV(<<"|">>)>>, <<id, NullV>>}

NextFaults ==
    \/ CreateTable({"t"}, TRUE)
    \/ CreateIndex({"t"})
    \/ InsertRow({"t"}, FaultRows, TRUE)
    \/ DeleteRows({"t"}, FaultFilters, TRUE)
    \/ UpdateRows({"t"}, FaultUpdates, FaultFilters, TRUE)
    \/ Reload

SpecFaults == Init /\ [][NextFaults]_vars

\* Queries against one table, with and without indexes.
QueryRows ==
    {<<i, n>> : i \in {IntV(1), IntV(2), NullV}, n \in {TextV(<<"a">>)}}

QueryColumnLists == {<<>>, <<id>>, <<name, id>>, <<ghost>>}

QueryFilters ==
    {None, Some(WhereClause(ghost, "Equals", IntV(1)))}
    \cup {Some(WhereClause(id, o, v)) : o \in Operators, v \in {IntV(1), TextV(<<"a">>)}}

NextQuery ==
    \/ CreateTable({"t"}, FALSE)
    \/ CreateIndex({"t"})
    \/ InsertRow({"t"}, QueryRows, FALSE)
    \/ DeleteRows({"t"}, FaultFilters, FALSE)
    \/ Scan({"t"}, QueryColumnLists, QueryFilters)

SpecQuery == Init /\ [][NextQuery]_vars

\* The storage engine across restarts.  The process starts on a data
\* directory that may already hold table files, some of which do not parse.
SchemaLine(table_name) == table_file(Table_new(table_name, SchemaOf(table_name)))[1]

BadSchemaFile == <<"i", "d", ":", "B", "O", "O", "L", "\n">>
BadValueFile == SchemaLine("t") \o <<"x", "|", "a", "\n">>
BadCountFile == SchemaLine("t") \o <<"1", "\n">>
GoodFile(table_name) ==
    file_text(table_file(
        [Table_new(table_name, SchemaOf(table_name)) EXCEPT !.rows =
            IF table_name = "t" THEN <<<<IntV(2), TextV(<<"a">>)>>>>
            ELSE <<<<FloatV(3)>>>>]))

StartFiles(table_name) ==
    IF table_name = "t"
    THEN {NoFile, FileOf(GoodFile("t")), FileOf(BadSchemaFile), FileOf(BadValueFile),
          FileOf(BadCountFile)}
    ELSE {NoFile, FileOf(GoodFile("u"))}

RestartRows ==
    {<<IntV(1), TextV(NullToken)>>, <<NullV, TextV(<<"|">>)>>, <<FloatV(3)>>, <<NullV>>}
    \cup BadRows

\* Repl::new: the database is what load_from_disk finds
InitRestart ==
    /\ disk \in {[n \in {"t", "u"} |-> IF n = "t" THEN ft ELSE fu] :
                    ft \in StartFiles("t"), fu \in StartFiles("u")}
    /\ tables = load_from_disk(disk).tables
    /\ indexes = load_from_disk(disk).indexes
    /\ last = [op |-> "load_from_disk", table |-> "", res |-> load_from_disk(disk).res]
    /\ faults = 0

NextRestart ==
    \/ CreateTable({"t", "u"}, FALSE)
    \/ CreateIndex({"t", "u"})
    \/ InsertRow({"t", "u"}, RestartRows, FALSE)
    \/ DeleteRows({"t", "u"}, FaultFilters, FALSE)
    \/ Reload

SpecRestart == InitRestart /\ [][NextRestart]_vars

\* The indexes of one table, asked for ranges.
RangeValues == {IntV(1), IntV(2), TextV(<<"a">>), NullV}

\* Index::range_lookup on an index of the table: nothing is changed
RangeLookup(names) ==
    \E table_name \in names, column_name \in ColumnNames :
        \E start \in RangeValues, end \in RangeValues :
            /\ IndexOn(table_name, column_name)
            /\ last' = [op |-> "range_lookup", table |-> table_name,
                        column |-> column_name, start |-> start, end |-> end,
                        res |-> Index_range_lookup(indexes[table_name][column_name],
                                                   start, end)]
            /\ UNCHANGED <<tables, indexes, disk, faults>>

NextIndex ==
    \/ CreateTable({"t"}, FALSE)
    \/ CreateIndex({"t"})
    \/ InsertRow({"t"}, QueryRows, FALSE)
    \/ DeleteRows({"t"}, FaultFilters, FALSE)
    \/ RangeLookup({"t"})

SpecIndex == Init /\ [][NextIndex]_vars

\* One table, created with a column list of the caller's choice.
TwiceIdSchema == <<Column(id, "Int"), Column(id, "Text")>>

SchemaInputs == {SchemaOf("t"), TwiceIdSchema}

\* execute(Plan::CreateTable { table_name, columns })
CreateTableWith(names, schemas) ==
    \E table_name \in names, columns \in schemas :
        Apply("create_table", table_name,
              create_table(tables, indexes, disk, table_name, columns, IoOk))

NextSchema ==
    \/ CreateTableWith({"t"}, SchemaInputs)
    \/ CreateIndex({"t"})
    \/ InsertRow({"t"}, QueryRows, FALSE)
    \/ UpdateRows({"t"}, FaultUpdates, FaultFilters, FALSE)
    \/ Reload

SpecSchema == Init /\ [][NextSchema]_vars

\* The storage engine on one table with a single TEXT column, whose rows
\* may hold the empty text or a blank.
TextSchema == <<Column(name, "Text")>>

TextRows == {<<TextV(<<>>)>>, <<TextV(<<" ">>)>>, <<TextV(<<"a">>)>>}

NextText ==
    \/ CreateTableWith({"t"}, {TextSchema})
    \/ CreateIndex({"t"})
    \/ InsertRow({"t"}, TextRows, FALSE)
    \/ DeleteRows({"t"}, {None}, FALSE)
    \/ Reload

SpecText == Init /\ [][NextText]_vars

\* The text encoding of disk.rs alone: a text is escaped as value_to_string
\* escapes it, and the escaped text is unescaped as string_to_value does.
EscapeAlphabet == {"\\", "|", "\n", "\r", "n", "r", "a"}

EscapeTexts == UNION {[1..k -> EscapeAlphabet] : k \in 0..MaxText}

InitEscape ==
    /\ tables = <<>>
    /\ indexes = <<>>
    /\ disk = [n \in {"t", "u"} |-> NoFile]
    /\ faults = 0
    /\ \E s \in EscapeTexts :
          last = [op |-> "text", table |-> "", res |-> Ok(s), text |-> s]

Escape ==
    /\ last.op = "text"
    /\ last' = [last EXCEPT !.op = "escape_string",
                            !.res = Ok(escape_string(last.res.v))]
    /\ UNCHANGED <<tables, indexes, disk, faults>>

Unescape ==
    /\ last.op = "escape_string"
    /\ last' = [last EXCEPT !.op = "unescape_string",
                            !.res = Ok(unescape_string(last.res.v))]
    /\ UNCHANGED <<tables, indexes, disk, faults>>

NextEscape == Escape \/ Unescape

SpecEscape == InitEscape /\ [][NextEscape]_vars

(***************************************************************************)
(* The claims.                                                             *)
(***************************************************************************)
SeqToSet(s) == {s[i] : i \in 1..Len(s)}

\* the values the claims probe indexes and filters with
Probes == {IntV(0), IntV(1), IntV(2), TextV(<<"a">>), TextV(<<"|">>), FloatV(3), NullV}

\* the positions of the rows holding v at column position c
HoldersOf(rows, c, v) ==
    {p \in 0..(Len(rows) - 1) :
        c < Len(rows[p + 1]) /\ ValueEq(rows[p + 1][c + 1], v)}

\* C1: in every state, hence right after every mutating call, every index of
\* a table answers lookup(v), for every value v, with exactly the positions
\* of the rows that hold v in the index's column, each once, and with no
\* match when no row holds v.
C1_LookupIsExact ==
    \A n \in DOMAIN indexes : \A c \in DOMAIN indexes[n] :
        /\ n \in DOMAIN tables
        /\ \A v \in Probes :
              LET index == indexes[n][c]
                  found == Index_lookup(index, v)
                  holders == HoldersOf(tables[n].rows, index.column_index, v)
              IN  IF holders = {} THEN ~found.some
                  ELSE /\ found.some
                       /\ SeqToSet(found.v) = holders
                       /\ Len(found.v) = Cardinality(holders)

\* an update has just changed rows of a table whose updated column is indexed
C1_Witness ==
    /\ last.op = "update_rows" /\ last.res.ok /\ last.res.v >= 1
    /\ IndexOn("t", id) /\ IndexOn("t", name)
    /\ Len(tables["t"].rows) >= 2
    /\ Index_lookup(indexes["t"][id], NullV).some

ValidationErrors == {"NoTable", "NoColumn", "TableExists", "Arity", "TypeMismatch"}

\* C6: a call that validation rejects leaves every table, every index and
\* every table file as they were.
C6_RejectedChangesNothing ==
    [][(~last'.res.ok /\ last'.res.err \in ValidationErrors)
          => UNCHANGED <<tables, indexes, disk>>]_vars

\* a row of the wrong type was just refused by a table that has rows and an index
C6_Witness ==
    /\ last.op = "insert_row" /\ IsErr(last.res, "TypeMismatch")
    /\ last.table \in DOMAIN tables
    /\ Len(tables[last.table].rows) >= 1
    /\ last.table \in DOMAIN indexes

\* C7: every row of every table has one value per column, each null or of
\* the column's declared type.
C7_RowInvariant ==
    \A n \in DOMAIN tables :
        LET table == tables[n]
        IN  \A r \in 1..Len(table.rows) :
                /\ Len(table.rows[r]) = Len(table.columns)
                /\ \A i \in 1..Len(table.columns) :
                      \/ table.rows[r][i].tag = "Null"
                      \/ table.rows[r][i].tag = table.columns[i].data_type

\* two tables with rows have just been read back from their files
C7_Witness ==
    /\ last.op = "load_from_disk"
    /\ DOMAIN tables = {"t", "u"}
    /\ Len(tables["t"].rows) >= 1 /\ Len(tables["u"].rows) >= 1
    /\ \E r \in 1..Len(tables["t"].rows) : tables["t"].rows[r][1].tag = "Null"

Mutators == {"create_table", "insert_row", "delete_rows", "update_rows"}

\* C8: when create_table, insert_row, delete_rows or update_rows has returned
\* success, the table's file holds the schema line and the row lines of the
\* table as it now is in memory.
C8_FileHoldsTable ==
    (last.op \in Mutators /\ last.res.ok) =>
        /\ last.table \in DOMAIN tables
        /\ disk[last.table] = FileOf(file_text(table_file(tables[last.table])))

\* a write succeeded on a table that has rows, after an earlier write failed
C8_Witness ==
    /\ last.op \in {"insert_row", "update_rows"} /\ last.res.ok
    /\ faults >= 1
    /\ Len(tables[last.table].rows) >= 2

IndexedOps == {"Equals", "GreaterThan", "LessThan"}
OrderingOps == {"GreaterThan", "LessThan", "GreaterOrEqual", "LessOrEqual"}

\* the rows a sequential scan keeps: those whose value at the filter's
\* column satisfies compare_values
SequentialScan(table, where_clause) ==
    LET c == CHOOSE i \in 1..Len(table.columns) :
                 table.columns[i].name = where_clause.column
    IN  SelectSeq(table.rows,
                  LAMBDA row : compare_values(row[c], where_clause.operator,
                                              where_clause.value))

HasColumn(table, column_name) ==
    \E i \in 1..Len(table.columns) : table.columns[i].name = column_name

\* the rows projected on the named columns, on all of them for the empty list
Projected(table, rows, columns) ==
    LET at(column_name) == CHOOSE i \in 1..Len(table.columns) :
                               table.columns[i].name = column_name
    IN  IF columns = <<>> THEN rows
        ELSE [r \in 1..Len(rows) |-> [i \in 1..Len(columns) |-> rows[r][at(columns[i])]]]

\* the last operation was a scan of an existing table with a filter, all of
\* whose columns exist
FilteredScan ==
    /\ last.op = "scan" /\ last.filter.some
    /\ last.table \in DOMAIN tables
    /\ HasColumn(tables[last.table], last.filter.v.column)
    /\ \A i \in 1..Len(last.columns) : HasColumn(tables[last.table], last.columns[i])

\* C2: select_with_filter with !=, >= or <= on an indexed column returns, and
\* returns the rows a sequential scan returns.
C2_Claim ==
    (/\ FilteredScan /\ last.columns # <<>>
     /\ last.filter.v.operator \notin IndexedOps
     /\ IndexOn(last.table, last.filter.v.column))
    => /\ last.res.ok
       /\ last.res.v.rows =
             Projected(tables[last.table],
                       SequentialScan(tables[last.table], last.filter.v), last.columns)

\* C3: a Scan plan with a filter returns the rows that satisfy the filter,
\* for every column list, the empty one (all columns) included.  (Stated for
\* filters on a column without an index, where every operator is scanned.)
C3_Claim ==
    (FilteredScan /\ ~IndexOn(last.table, last.filter.v.column))
    => /\ last.res.ok
       /\ last.res.v.rows =
             Projected(tables[last.table],
                       SequentialScan(tables[last.table], last.filter.v), last.columns)

Count(seq, x) == Cardinality({i \in 1..Len(seq) : seq[i] = x})

SameBag(a, b) == \A x \in SeqToSet(a) \cup SeqToSet(b) : Count(a, x) = Count(b, x)

AllColumns(table) == [i \in 1..Len(table.columns) |-> table.columns[i].name]

\* C4: for every filter with =, > or < and any value, select_with_filter
\* returns the same rows, as a multiset, with an index on the filter column
\* as without one.
C4_Claim ==
    \A n \in DOMAIN tables : \A c \in SeqToSet(AllColumns(tables[n])) :
        IndexOn(n, c) =>
            \A o \in IndexedOps, v \in Probes :
                LET filter == Some(WhereClause(c, o, v))
                    with == select_with_filter(tables, indexes, n, AllColumns(tables[n]),
                                               filter)
                    without == select_with_filter(tables, <<>>, n, AllColumns(tables[n]),
                                                  filter)
                IN  with.ok /\ without.ok /\ SameBag(with.v.rows, without.v.rows)

\* the rows whose value at column position c + 1 is null or of another variant
\* than v
Unordered(rows, c, v) ==
    SelectSeq(rows, LAMBDA row : row[c + 1].tag = "Null" \/ row[c + 1].tag # v.tag)

\* C5: under >, <, >= or <= a row whose filter-column value is null or of
\* another variant than the filter value is not returned by
\* select_with_filter, not removed by delete_rows and not changed by
\* update_rows, and none of the three fails.  (The selects with >= or <= on
\* an indexed column, which C2 is about, are left out of the statement.)
C5_Claim ==
    \A n \in DOMAIN tables : \A ci \in 1..Len(tables[n].columns) :
        \A o \in OrderingOps, v \in Probes :
            LET table == tables[n]
                filter == Some(WhereClause(table.columns[ci].name, o, v))
                selected == select_with_filter(tables, indexes, n, AllColumns(table), filter)
                deleted == delete_rows(tables, indexes, disk, n, filter, IoOk)
                updated == update_rows(tables, indexes, disk, n, table.columns[ci].name,
                                       NullV, filter, IoOk)
            IN  /\ (o \in IndexedOps \/ ~IndexOn(n, table.columns[ci].name))
                      => (selected.ok /\ Unordered(selected.v.rows, ci - 1, v) = <<>>)
                /\ deleted.res.ok
                /\ Unordered(deleted.tables[n].rows, ci - 1, v)
                      = Unordered(table.rows, ci - 1, v)
                /\ updated.res.ok
                /\ \A r \in 1..Len(table.rows) :
                      (table.rows[r][ci].tag = "Null" \/ table.rows[r][ci].tag # v.tag)
                         => updated.tables[n].rows[r] = table.rows[r]

\* the table with every text equal to the NULL token turned into null
NullCollapsed(table) ==
    [table EXCEPT !.rows =
        [r \in 1..Len(table.rows) |->
            [i \in 1..Len(table.rows[r]) |->
                IF table.rows[r][i].tag = "Text" /\ table.rows[r][i].v = NullToken
                THEN NullV ELSE table.rows[r][i]]]]

Saved(n) == disk[n] = FileOf(file_text(table_file(tables[n])))

\* C9: a table that save_table has written is read back by load_table with
\* the same columns and the same rows in the same order, a text NULL read
\* back as null.
C9_Claim ==
    [][last'.op = "load_from_disk" =>
          \A n \in DOMAIN tables :
              Saved(n) => /\ n \in DOMAIN tables'
                          /\ tables'[n] = NullCollapsed(tables[n])]_vars

HasPipe(table) ==
    \E r \in 1..Len(table.rows) : \E i \in 1..Len(table.rows[r]) :
        table.rows[r][i].tag = "Text" /\ "|" \in SeqToSet(table.rows[r][i].v)

\* C10: the file of a table that holds a text with a pipe character parses,
\* and its rows come back with the same fields and the same text.
C10_Claim ==
    \A n \in DOMAIN tables :
        HasPipe(tables[n]) =>
            LET loaded == load_table(n, file_text(table_file(tables[n])))
            IN  loaded.ok /\ loaded.v.rows = tables[n].rows

\* the row lines of a table file
RowLines(file) == Tail(Split(file.text, "\n"))

\* C11: a text equal to NULL in a TEXT column is written as the bare token
\* NULL, and when the table is read back at a restart the value is null.
C11_NullTextReadsAsNull ==
    [][last'.op = "load_from_disk" =>
          \A n \in DOMAIN tables :
              (Saved(n) /\ n \in DOMAIN tables') =>
                  \A r \in 1..Len(tables[n].rows) : \A i \in 1..Len(tables[n].columns) :
                      (tables[n].columns[i].data_type = "Text"
                       /\ tables[n].rows[r][i] = TextV(NullToken))
                          => /\ Split(RowLines(disk[n])[r], "|")[i] = NullToken
                             /\ tables'[n].rows[r][i] = NullV]_vars

\* table t has been read back with a null name in a row whose name was
\* inserted as text
C11_Witness ==
    /\ last.op = "load_from_disk"
    /\ "t" \in DOMAIN tables
    /\ \E r \in 1..Len(tables["t"].rows) :
          tables["t"].rows[r] = <<IntV(1), NullV>>

\* C12: in every state, hence after every delete_rows, every index equals
\* the index that build() makes from the table's current rows: the same keys
\* in the same order, each with the same positions in the same order.
C12_IndexEqualsRebuild ==
    \A n \in DOMAIN indexes : \A c \in DOMAIN indexes[n] :
        /\ n \in DOMAIN tables
        /\ indexes[n][c] =
              Index_build(Index_new(c, get_column_index(tables[n], c).v), tables[n].rows)

\* a delete has removed rows from a table that keeps rows and has two indexes
C12_Witness ==
    /\ last.op = "delete_rows" /\ last.res.ok /\ last.res.v >= 1
    /\ IndexOn("t", id) /\ IndexOn("t", name)
    /\ Len(tables["t"].rows) >= 1

\* what a call of `op` on table n leaves when the disk takes the write
SucceededAs(op, n) ==
    CASE op = "insert_row" ->
            {insert_row(tables, indexes, disk, n, values, IoOk) : values \in FaultRows}
      [] op = "delete_rows" ->
            {delete_rows(tables, indexes, disk, n, filter, IoOk) : filter \in FaultFilters}
      [] op = "update_rows" ->
            {update_rows(tables, indexes, disk, n, set[1], set[2], filter, IoOk) :
                set \in FaultUpdates, filter \in FaultFilters}

\* C13: when the write that ends insert_row, delete_rows or update_rows
\* fails, the call returns an error, the tables and the indexes are those
\* the call leaves when the write succeeds (nothing is rolled back, and every
\* index of the table is the index of the mutated rows), and the call does
\* not bring the file up to the table: the file is untouched or differs from
\* the table.
C13_FailedWriteKeepsMutation ==
    [][(last'.op \in {"insert_row", "delete_rows", "update_rows"}
        /\ IsErr(last'.res, "Io"))
          => LET n == last'.table
             IN  /\ \E out \in SucceededAs(last'.op, n) :
                       out.res.ok /\ tables' = out.tables /\ indexes' = out.indexes
                 /\ n \in DOMAIN indexes' =>
                       \A c \in DOMAIN indexes'[n] :
                           indexes'[n][c] =
                               Index_build(Index_new(c, get_column_index(tables'[n], c).v),
                                           tables'[n].rows)
                 /\ \/ disk' = disk
                    \/ disk'[n] # FileOf(file_text(table_file(tables'[n])))]_vars

\* a write has just failed on an indexed table with rows, and the file does
\* not hold the table
C13_Witness ==
    /\ last.op \in {"insert_row", "delete_rows", "update_rows"}
    /\ IsErr(last.res, "Io")
    /\ IndexOn("t", id)
    /\ Len(tables["t"].rows) >= 1
    /\ ~Saved("t")

\* the files with a bad schema line, an unparsable value, a wrong field count
UnparsableFiles == {FileOf(BadSchemaFile), FileOf(BadValueFile), FileOf(BadCountFile)}

\* C14: at a restart a table file that does not parse leaves no table, and
\* every file that parses gives its table with all its rows, whatever the
\* other files of the directory are.
C14_BadFileIsSkippedAlone ==
    [][last'.op = "load_from_disk" =>
          \A n \in DOMAIN disk :
              LET loaded == load_table(n, disk[n].text)
              IN  /\ (disk[n].exists /\ ~loaded.ok) => n \notin DOMAIN tables'
                  /\ disk[n] \in UnparsableFiles => n \notin DOMAIN tables'
                  /\ (disk[n].exists /\ loaded.ok) =>
                        (n \in DOMAIN tables' /\ tables'[n] = loaded.v)
                  /\ (n \in DOMAIN tables /\ Saved(n) /\ ~HasPipe(tables[n])) =>
                        (n \in DOMAIN tables' /\ tables'[n] = NullCollapsed(tables[n]))]_vars

\* after a restart the file of t is there but t is not, and u is back with
\* the row of its first file and a row inserted since
C14_Witness ==
    /\ last.op = "load_from_disk"
    /\ disk["t"].exists /\ "t" \notin DOMAIN tables
    /\ "u" \in DOMAIN tables /\ Len(tables["u"].rows) >= 2

\* C15: a restart leaves no index on any table, and an index on a column
\* comes into being only by a successful create_index on its table.
C15_IndexesEndWithTheProcess ==
    [][/\ last'.op = "load_from_disk" => indexes' = <<>>
       /\ \A n \in DOMAIN indexes' : \A c \in DOMAIN indexes'[n] :
             ~(n \in DOMAIN indexes /\ c \in DOMAIN indexes[n])
                => (last'.op = "create_index" /\ last'.res.ok /\ last'.table = n)]_vars

\* a process that inserted rows into t has ended, and the new one has t with
\* its rows and no index
C15_Witness ==
    /\ last.op = "load_from_disk"
    /\ "t" \in DOMAIN tables /\ Len(tables["t"].rows) >= 2
    /\ indexes = <<>>

\* one value of each variant, and the rows of up to three of them
TypeProbes == {IntV(1), TextV(<<"a">>), FloatV(3), NullV}

CandidateRows == UNION {[1..k -> TypeProbes] : k \in 0..3}

\* C16: insert_row takes a row exactly when it has one value per column and
\* each value is null or of the variant its column declares; update_rows
\* takes a new value for a column exactly when it is null or of the variant
\* the column declares.
C16_TypeRule ==
    \A n \in DOMAIN tables :
        LET columns == tables[n].columns
            fits(value, column) == value.tag = "Null" \/ value.tag = column.data_type
        IN  /\ \A values \in CandidateRows :
                  insert_row(tables, indexes, disk, n, values, IoOk).res.ok
                     <=> /\ Len(values) = Len(columns)
                         /\ \A i \in 1..Len(columns) : fits(values[i], columns[i])
            /\ \A i \in 1..Len(columns) : \A value \in TypeProbes :
                  update_rows(tables, indexes, disk, n, columns[i].name, value, None,
                              IoOk).res.ok
                     <=> fits(value, columns[i])

\* an integer has just been refused by the FLOAT column of u, which has a row
C16_Witness ==
    /\ last.op = "insert_row" /\ last.table = "u"
    /\ IsErr(last.res, "TypeMismatch")
    /\ "u" \in DOMAIN tables /\ Len(tables["u"].rows) >= 1

\* C17: a create_table whose write fails registers nothing, so that the
\* same create_table succeeds once the disk takes the write; a create_table
\* that succeeds has written the file of the empty table and registered the
\* table with no rows and no index.
C17_SavedThenRegistered ==
    [][last'.op = "create_table" =>
          LET n == last'.table
          IN  /\ IsErr(last'.res, "Io") =>
                    /\ tables' = tables /\ indexes' = indexes
                    /\ n \notin DOMAIN tables'
                    /\ create_table(tables', indexes', disk', n, SchemaOf(n), IoOk).res.ok
              /\ last'.res.ok =>
                    /\ n \notin DOMAIN tables /\ n \in DOMAIN tables'
                    /\ tables'[n] = Table_new(n, SchemaOf(n))
                    /\ disk'[n] = FileOf(file_text(table_file(tables'[n])))
                    /\ n \notin DOMAIN indexes']_vars

\* the write of create_table has just failed after the file was created:
\* the file is there and the table is not
C17_Witness ==
    /\ last.op = "create_table" /\ IsErr(last.res, "Io")
    /\ disk["t"].exists
    /\ "t" \notin DOMAIN tables

\* C18: every operation of a running database keeps every registered table
\* registered with the columns it was created with, and a create_table with
\* the name of a registered table fails and leaves the tables, their rows,
\* the indexes and the files as they were.
C18_TablesStay ==
    [][last'.op # "load_from_disk" =>
          /\ \A n \in DOMAIN tables :
                n \in DOMAIN tables' /\ tables'[n].columns = tables[n].columns
          /\ (last'.op = "create_table" /\ last'.table \in DOMAIN tables) =>
                /\ IsErr(last'.res, "TableExists")
                /\ UNCHANGED <<tables, indexes, disk>>]_vars

\* a second create_table t has just been refused while t holds rows
C18_Witness ==
    /\ last.op = "create_table" /\ IsErr(last.res, "TableExists")
    /\ last.table = "t"
    /\ Len(tables["t"].rows) >= 1

\* C19: the indexes of a table are one per indexed column, each under its
\* column's name; create_index on a column, indexed already or not, leaves
\* on that column the index built from the table's current rows and leaves
\* every other index alone, and a second create_index right after the first
\* changes nothing more.
C19_OneIndexPerColumn ==
    /\ \A n \in DOMAIN indexes : \A c \in DOMAIN indexes[n] :
          indexes[n][c].column_name = c
    /\ \A n \in DOMAIN tables : \A c \in ColumnNames :
          LET once == create_index(tables, indexes, disk, n, c)
              twice == create_index(once.tables, once.indexes, once.disk, n, c)
              before == IF n \in DOMAIN indexes THEN indexes[n] ELSE <<>>
          IN  /\ twice = once
              /\ once.res.ok =>
                    /\ DOMAIN once.indexes = DOMAIN indexes \cup {n}
                    /\ DOMAIN once.indexes[n] = DOMAIN before \cup {c}
                    /\ once.indexes[n][c] =
                          Index_build(Index_new(c, get_column_index(tables[n], c).v),
                                      tables[n].rows)
                    /\ \A d \in DOMAIN before \ {c} : once.indexes[n][d] = before[d]
                    /\ \A m \in DOMAIN indexes \ {n} : once.indexes[m] = indexes[m]

\* create_index has just run on t, which has two rows and both of its
\* columns indexed, one key holding both positions
C19_Witness ==
    /\ last.op = "create_index" /\ last.res.ok /\ last.table = "t"
    /\ IndexOn("t", id) /\ IndexOn("t", name)
    /\ \E e \in 1..Len(indexes["t"][id].tree) : Len(indexes["t"][id].tree[e].rows) = 2

\* C20: for every index and every value a, range_lookup(a, a) returns the
\* positions lookup(a) returns, in the same order, and no position when
\* lookup(a) finds nothing.
C20_PointRangeIsLookup ==
    \A n \in DOMAIN indexes : \A c \in DOMAIN indexes[n] : \A a \in Probes :
        LET ranged == Index_range_lookup(indexes[n][c], a, a)
            found == Index_lookup(indexes[n][c], a)
        IN  /\ ranged.ok
            /\ ranged.v = (IF found.some THEN found.v ELSE <<>>)

\* range_lookup(a, a) has just returned the two positions of a key
C20_Witness ==
    /\ last.op = "range_lookup" /\ last.start = last.end
    /\ last.res.ok /\ Len(last.res.v) = 2

\* C21: in every registered table no two columns have the same name.
C21_Claim ==
    \A n \in DOMAIN tables :
        \A i \in 1..Len(tables[n].columns) : \A j \in 1..Len(tables[n].columns) :
            i # j => tables[n].columns[i].name # tables[n].columns[j].name

\* the position lists of the entries, one after the other
RECURSIVE Flatten(_)
Flatten(entries) ==
    IF entries = <<>> THEN <<>> ELSE Head(entries).rows \o Flatten(Tail(entries))

\* C22: for every index and every pair of values low and high, low above
\* high included, range_lookup(low, high) returns the positions of the keys
\* k with low <= k <= high, in ascending key order, and does not fail.
C22_Claim ==
    \A n \in DOMAIN indexes : \A c \in DOMAIN indexes[n] :
        \A low \in Probes, high \in Probes :
            LET ranged == Index_range_lookup(indexes[n][c], low, high)
                within(e) == /\ ~KeyLess(e.key, IndexKeyFrom(low))
                             /\ ~KeyLess(IndexKeyFrom(high), e.key)
            IN  /\ ranged.ok
                /\ ranged.v = Flatten(SelectSeq(indexes[n][c].tree, within))

\* the filters the claims probe delete_rows and update_rows with
FilterProbes(table) ==
    {None} \cup {Some(WhereClause(table.columns[i].name, o, v)) :
                    i \in 1..Len(table.columns), o \in Operators, v \in Probes}

\* the positions of the rows of the table that satisfy the filter
Satisfying(table, filter) ==
    {p \in 0..(Len(table.rows) - 1) :
        \/ ~filter.some
        \/ \E i \in 1..Len(table.columns) :
              /\ table.columns[i].name = filter.v.column
              /\ \A j \in 1..(i - 1) : table.columns[j].name # filter.v.column
              /\ compare_values(table.rows[p + 1][i], filter.v.operator, filter.v.value)}

\* C23: delete_rows removes the rows that satisfy the filter, all rows when
\* there is no filter, and no other; a surviving row moves down by the number
\* of removed rows before it, so the survivors keep their order at positions
\* 0..n-1; the count returned is the old row count less the new one.
C23_DeleteRemovesTheMatches ==
    \A n \in DOMAIN tables : \A filter \in FilterProbes(tables[n]) :
        LET rows == tables[n].rows
            out == delete_rows(tables, indexes, disk, n, filter, IoOk)
            left == out.tables[n].rows
            gone == Satisfying(tables[n], filter)
            before(p) == Cardinality({q \in gone : q < p})
        IN  /\ out.res.ok
            /\ Len(left) = Len(rows) - Cardinality(gone)
            /\ out.res.v = Len(rows) - Len(left)
            /\ \A p \in (0..(Len(rows) - 1)) \ gone :
                  left[p - before(p) + 1] = rows[p + 1]

\* a delete has just removed the first of two rows, and the second is now
\* at position 0
C23_Witness ==
    /\ last.op = "delete_rows" /\ last.res.ok /\ last.res.v = 1
    /\ "t" \in DOMAIN tables
    /\ tables["t"].rows = <<<<IntV(2), TextV(<<"a">>)>>>>

\* the filters and the new values the claim probes update_rows with
UpdateFilterProbes(table) ==
    {None} \cup {Some(WhereClause(table.columns[i].name, o, v)) :
                    i \in 1..Len(table.columns), o \in Operators,
                    v \in {IntV(1), TextV(<<"a">>), NullV}}

UpdateValueProbes == {IntV(2), TextV(<<"|">>), NullV}

\* C24: update_rows puts the new value into the target column of the rows
\* that satisfied the filter before the call, of all rows when there is no
\* filter, the filter column being the target column or not; every other
\* cell, the number of rows and their order stay; the count returned is the
\* number of those rows.
C24_UpdateSetsTheMatches ==
    \A n \in DOMAIN tables :
        LET table == tables[n]
            rows == table.rows
        IN  \A ci \in 1..Len(table.columns) : \A value \in UpdateValueProbes :
                \A filter \in UpdateFilterProbes(table) :
                    LET target == get_column_index(table, table.columns[ci].name).v + 1
                        out == update_rows(tables, indexes, disk, n, table.columns[ci].name,
                                           value, filter, IoOk)
                        hit == Satisfying(table, filter)
                    IN  (value.tag = "Null" \/ value.tag = table.columns[target].data_type)
                        => /\ out.res.ok
                           /\ out.res.v = Cardinality(hit)
                           /\ Len(out.tables[n].rows) = Len(rows)
                           /\ \A p \in 0..(Len(rows) - 1) : \A i \in 1..Len(table.columns) :
                                 out.tables[n].rows[p + 1][i] =
                                     IF p \in hit /\ i = target THEN value
                                     ELSE rows[p + 1][i]

\* an update of id where id = 1 has just changed one of the two rows of t
C24_Witness ==
    /\ last.op = "update_rows" /\ last.res.ok /\ last.res.v = 1
    /\ "t" \in DOMAIN tables
    /\ tables["t"].columns = SchemaOf("t")
    /\ tables["t"].rows = <<<<NullV, TextV(<<"a">>)>>, <<IntV(2), TextV(<<"a">>)>>>>

\* the positions an index holds under the key of v
PositionsOf(index, v) ==
    LET found == Index_lookup(index, v) IN IF found.some THEN found.v ELSE <<>>

\* C25: an insert_row that succeeds puts the row at the position equal to
\* the old number of rows and leaves the rows before it as they were; the
\* other tables and their indexes stay; every index of the table gets that
\* one position, at the end of the list of the row's key, and nothing else.
C25_InsertAppends ==
    [][(last'.op = "insert_row" /\ last'.res.ok) =>
          LET n == last'.table
              old == Len(tables[n].rows)
              row == tables'[n].rows[old + 1]
              mine == IF n \in DOMAIN indexes THEN DOMAIN indexes[n] ELSE {}
          IN  /\ DOMAIN tables' = DOMAIN tables
              /\ Len(tables'[n].rows) = old + 1
              /\ SubSeq(tables'[n].rows, 1, old) = tables[n].rows
              /\ tables'[n].columns = tables[n].columns
              /\ \A m \in DOMAIN tables \ {n} : tables'[m] = tables[m]
              /\ DOMAIN indexes' = DOMAIN indexes
              /\ \A m \in DOMAIN indexes \ {n} : indexes'[m] = indexes[m]
              /\ n \in DOMAIN indexes => DOMAIN indexes'[n] = mine
              /\ \A c \in mine :
                    LET was == indexes[n][c]
                        is == indexes'[n][c]
                        held == row[was.column_index + 1]
                    IN  /\ PositionsOf(is, held) = Append(PositionsOf(was, held), old)
                        /\ Len(Flatten(is.tree)) = Len(Flatten(was.tree)) + 1
                        /\ \A v \in Probes :
                              ~KeyEq(IndexKeyFrom(v), IndexKeyFrom(held))
                                 => PositionsOf(is, v) = PositionsOf(was, v)]_vars

\* a second row has just been inserted into t, both columns of which are
\* indexed, while u is registered too
C25_Witness ==
    /\ last.op = "insert_row" /\ last.res.ok /\ last.table = "t"
    /\ IndexOn("t", id) /\ IndexOn("t", name)
    /\ Len(tables["t"].rows) = 2
    /\ "u" \in DOMAIN tables

\* the key of the row at position p in the column of the index
KeyAt(rows, index, p) == IndexKeyFrom(rows[p + 1][index.column_index + 1])

\* the positions follow each other by ascending key, and by ascending
\* position under one key
InKeyOrder(rows, index, positions) ==
    \A i \in 1..Len(positions) : \A j \in (i + 1)..Len(positions) :
        \/ KeyLess(KeyAt(rows, index, positions[i]), KeyAt(rows, index, positions[j]))
        \/ /\ KeyEq(KeyAt(rows, index, positions[i]), KeyAt(rows, index, positions[j]))
           /\ positions[i] < positions[j]

\* C26: on every index, greater_than(v) returns the positions of the rows
\* whose key is above the key of v and less_than(v) those whose key is below
\* it, each position once, by ascending key and ascending position under one
\* key; a position whose key is the key of v is in neither.
C26_StrictRanges ==
    \A n \in DOMAIN indexes : \A c \in DOMAIN indexes[n] : \A v \in Probes :
        LET index == indexes[n][c]
            rows == tables[n].rows
            all == 0..(Len(rows) - 1)
            above == Index_greater_than(index, v)
            below == Index_less_than(index, v)
        IN  /\ SeqToSet(above) =
                  {p \in all : KeyLess(IndexKeyFrom(v), KeyAt(rows, index, p))}
            /\ SeqToSet(below) =
                  {p \in all : KeyLess(KeyAt(rows, index, p), IndexKeyFrom(v))}
            /\ Len(above) = Cardinality(SeqToSet(above))
            /\ Len(below) = Cardinality(SeqToSet(below))
            /\ InKeyOrder(rows, index, above)
            /\ InKeyOrder(rows, index, below)
            /\ \A p \in all :
                  KeyEq(KeyAt(rows, index, p), IndexKeyFrom(v))
                     => p \notin SeqToSet(above) \cup SeqToSet(below)

\* a query with > on the indexed column id has just returned one of the two
\* rows of t
C26_Witness ==
    /\ last.op = "scan" /\ last.res.ok
    /\ last.columns # <<>>
    /\ last.filter = Some(WhereClause(id, "GreaterThan", IntV(1)))
    /\ IndexOn("t", id)
    /\ Len(tables["t"].rows) = 2 /\ Len(last.res.v.rows) = 1

\* the positions of a set, lowest first
RECURSIVE Ascending(_)
Ascending(positions) ==
    IF positions = {} THEN <<>>
    ELSE LET low == CHOOSE p \in positions : \A q \in positions : p <= q
         IN  <<low>> \o Ascending(positions \ {low})

\* the indexes on column position ci that build may be called on: an empty
\* one, and one holding the tree of each index the table has
BuildTargets(n, c, ci) ==
    {Index_new(c, ci)}
    \cup {[Index_new(c, ci) EXCEPT !.tree = indexes[n][d].tree] :
            d \in IF n \in DOMAIN indexes THEN DOMAIN indexes[n] ELSE {}}

\* C27: after build(rows), whatever the index held before, lookup(v) gives
\* the positions of the rows holding v in the index's column, lowest first,
\* and no match when no row holds v; a second build(rows) changes nothing.
C27_BuildThenLookup ==
    \A n \in DOMAIN tables : \A ci \in 1..Len(tables[n].columns) :
        LET c == tables[n].columns[ci].name
            rows == tables[n].rows
        IN  \A index \in BuildTargets(n, c, ci - 1) :
                LET built == Index_build(index, rows)
                IN  /\ Index_build(built, rows) = built
                    /\ built = Index_build(Index_new(c, ci - 1), rows)
                    /\ \A v \in Probes :
                          LET holders == HoldersOf(rows, ci - 1, v)
                              found == Index_lookup(built, v)
                          IN  IF holders = {} THEN ~found.some
                              ELSE found.some /\ found.v = Ascending(holders)

\* create_index has just built the index on name, and both rows of t are
\* under the key a
C27_Witness ==
    /\ last.op = "create_index" /\ last.res.ok
    /\ IndexOn("t", name)
    /\ Index_lookup(indexes["t"][name], TextV(<<"a">>)) = Some(<<0, 1>>)

\* the column lists and the filters the claim probes select_with_filter with
ColumnListProbes == {<<>>, <<id>>, <<name, id>>, <<id, id>>, <<ghost>>, <<id, ghost>>}

SelectFilterProbes ==
    QueryFilters \cup {Some(WhereClause(name, "NotEquals", TextV(<<"|">>)))}

\* C28: select_with_filter fails when a requested column or the filter's
\* column is not a column of the table.  When it returns, the column names
\* are the requested ones in the requested order, or all columns in schema
\* order for the empty list, and result row k holds, for each of them in
\* turn, the value the k-th selected source row has in that column.  It does
\* return for known columns when the filter is answered by a scan or by an
\* index lookup.
C28_Projection ==
    \A n \in DOMAIN tables :
        \A columns \in ColumnListProbes, filter \in SelectFilterProbes :
            LET table == tables[n]
                got == select_with_filter(tables, indexes, n, columns, filter)
                known(c) == \E i \in 1..Len(table.columns) : table.columns[i].name = c
                wanted == IF columns = <<>> THEN AllColumns(table) ELSE columns
                source == IF filter.some THEN filter_rows(indexes, table, filter.v, 1).v
                          ELSE table.rows
                at(c) == CHOOSE i \in 1..Len(table.columns) :
                            /\ table.columns[i].name = c
                            /\ \A j \in 1..(i - 1) : table.columns[j].name # c
            IN  /\ (\E i \in 1..Len(columns) : ~known(columns[i])) => ~got.ok
                /\ (filter.some /\ ~known(filter.v.column)) => ~got.ok
                /\ ( /\ \A i \in 1..Len(columns) : known(columns[i])
                     /\ filter.some => known(filter.v.column)
                     /\ filter.some =>
                           (filter.v.operator \in IndexedOps
                            \/ ~IndexOn(n, filter.v.column)) ) => got.ok
                /\ got.ok =>
                      /\ got.v.columns = wanted
                      /\ Len(got.v.rows) = Len(source)
                      /\ \A k \in 1..Len(source) :
                            /\ Len(got.v.rows[k]) = Len(wanted)
                            /\ \A j \in 1..Len(wanted) :
                                  got.v.rows[k][j] = source[k][at(wanted[j])]

\* a query for name, id with a filter has just returned a row of t
C28_Witness ==
    /\ last.op = "scan" /\ last.res.ok
    /\ last.columns = <<name, id>> /\ last.filter.some
    /\ Len(last.res.v.rows) >= 1
    /\ last.res.v.rows[1][1].tag = "Text"

\* C29: a query returns its rows in ascending table position, with an index
\* on the filter column as without one: whenever both return the same rows,
\* they return them in the same order.
C29_Claim ==
    \A n \in DOMAIN tables : \A ci \in 1..Len(tables[n].columns) :
        \A o \in IndexedOps, v \in Probes :
            LET table == tables[n]
                filter == Some(WhereClause(table.columns[ci].name, o, v))
                with == select_with_filter(tables, indexes, n, AllColumns(table), filter)
                without == select_with_filter(tables, <<>>, n, AllColumns(table), filter)
            IN  (with.ok /\ without.ok /\ SameBag(with.v.rows, without.v.rows))
                   => with.v.rows = without.v.rows

\* C30: in every state, each index of a table holds every position
\* 0..len(rows)-1 exactly once across all its key lists and no other
\* position, has no empty key list, and every key list is strictly ascending.
C30_IndexCoversPositions ==
    \A n \in DOMAIN indexes : \A c \in DOMAIN indexes[n] :
        LET tree == indexes[n][c].tree
            held == Flatten(tree)
        IN  /\ n \in DOMAIN tables
            /\ \A p \in 0..(Len(tables[n].rows) - 1) : Count(held, p) = 1
            /\ \A i \in 1..Len(held) : held[i] \in 0..(Len(tables[n].rows) - 1)
            /\ \A e \in 1..Len(tree) :
                  /\ tree[e].rows # <<>>
                  /\ \A i, j \in 1..Len(tree[e].rows) :
                        i < j => tree[e].rows[i] < tree[e].rows[j]

\* an update has rebuilt the indexes of a table: one index holds two positions
\* under one key, the other holds a key for each position
C30_Witness ==
    /\ last.op = "update_rows" /\ last.res.ok /\ last.res.v >= 1
    /\ IndexOn("t", id) /\ IndexOn("t", name)
    /\ \E e \in 1..Len(indexes["t"][name].tree) :
          Len(indexes["t"][name].tree[e].rows) = 2
    /\ Len(indexes["t"][id].tree) = 2

\* C31: when a table's file differs from the table in memory after a failed
\* write, a successful insert_row, delete_rows or update_rows on that table
\* writes the whole file anew: after the step the file holds the schema line
\* and the row lines of the table as it then is in memory.
C31_NextWriteRestoresFile ==
    [][(/\ last'.op \in {"insert_row", "delete_rows", "update_rows"}
        /\ last'.res.ok
        /\ faults >= 1
        /\ last'.table \in DOMAIN tables
        /\ ~Saved(last'.table))
          => LET n == last'.table
             IN  /\ n \in DOMAIN tables'
                 /\ disk'[n] = FileOf(file_text(table_file(tables'[n])))]_vars

\* a failed write has left the file of t short of the table, which has rows,
\* and an insert, a delete and an update can each succeed on it
C31_Witness ==
    /\ faults >= 1
    /\ "t" \in DOMAIN tables /\ ~Saved("t")
    /\ Len(tables["t"].rows) >= 1
    /\ disk["t"].exists
    /\ \A op \in {"insert_row", "delete_rows", "update_rows"} :
          \E out \in SucceededAs(op, "t") : out.res.ok

\* C32: load_table returns exactly as many rows as save_table wrote: for
\* every table in memory, the file that save_table writes for it is read by
\* load_table as a table with the same number of rows, a table whose single
\* column holds the empty text or a blank included.
C32_Claim ==
    \A n \in DOMAIN tables :
        LET written == save_table(disk, tables[n], IoOk).disk[n]
            loaded == load_table(n, written.text)
        IN  loaded.ok /\ Len(loaded.v.rows) = Len(tables[n].rows)

\* C33: for every text s, unescape_string(escape_string(s)) equals s: a text
\* that has been escaped and then unescaped is the text it was.
C33_RoundTrip ==
    last.op = "unescape_string" => last.res.v = last.text

\* a text with a backslash before an n and a pipe has made the round trip
C33_Witness ==
    /\ last.op = "unescape_string"
    /\ last.text = <<"\\", "n", "|">>
    /\ last.res.v = last.text

====
